---- MODULE Spec2Model ----
(***************************************************************************)
(* The blog backend of server.js: registration and login with bcrypt       *)
(* hashes and JWT session tokens, and the post handlers guarded by the     *)
(* token and by post ownership.  The document store (mongoose), the        *)
(* password hasher (bcryptjs) and the token signer (jsonwebtoken) are the  *)
(* libraries the handlers call; the User schema and the auth middleware    *)
(* are imported by server.js from files that are not part of the source    *)
(* at hand and are modelled from the specification.                        *)
(*                                                                         *)
(* One action is one handler, from the request to its answer.  The         *)
(* registration handler is two actions: it is suspended between the lookup *)
(* of the email and user.save(), parked in a slot of pend, and other       *)
(* handlers run in between.                                                *)
(***************************************************************************)
EXTENDS Naturals, Sequences, FiniteSets, TLC

\* ------------------------------------------------------------- bounds
\* Handlers suspended at an await at the same time.
MaxPending == 2
\* The clock stops at this many hours.
MaxClock == 10
\* Hours between two observations of the clock.
TickHours == 5

\* ---------------------------------------------------------- constants
\* jwt.sign(..., { expiresIn: "10hr" }): ten hours.
ExpiresIn == 10
\* check('password').isLength({min: 6})
MinPasswordLength == 6
\* bcrypt.genSalt(10)
SaltRounds == 10

\* A field the request body does not carry (undefined in the handler).
Missing == "<undefined>"
\* No user id / no post id.
NoUser == ""
NoPostId == ""

\* --------------------------------------------------- domains of inputs
UserIds == {"u1", "u2"}
PostIds == {"p1"}
Names == {Missing, "alice"}
Emails == {"a@x.io", "b@x.io", "not-an-email"}
Passwords == {Missing, "abc", "secret1"}
Titles == {Missing, "", "Hi", "Yo"}
Bodies == {Missing, "World"}
Salts == {"s1"}
Slots == 1..MaxPending

\* ------------------------------------------------------------ validators
\* express-validator turns a missing field into '' before it applies a rule.
ToStr(x) ==
    IF x = Missing THEN "" ELSE x

\* check(f).not().isEmpty()
NotEmpty(x) ==
    ToStr(x) # ""

\* check('email').isEmail(): of the inputs drawn, the ones shaped local@domain.tld.
IsEmail(x) ==
    x \in {"a@x.io", "b@x.io"}

\* check('password').isLength({min: 6})
IsLongEnough(x) ==
    Len(ToStr(x)) >= MinPasswordLength

\* check('password').exists()
Exists(x) ==
    x # Missing

\* ------------------------------------------------------ password hasher
\* A password field as a value: alg "plain" is the clear text itself.
Plain(p) ==
    [alg |-> "plain", rounds |-> 0, salt |-> "", digest |-> <<"", p>>]

\* bcrypt.hash(password, salt): parameters, salt and the digest of (salt, password).
BcryptHash(p, salt) ==
    [alg |-> "bcrypt", rounds |-> SaltRounds, salt |-> salt, digest |-> <<salt, p>>]

\* bcrypt.compare(password, hash): recompute with the embedded salt and compare.
BcryptCompare(p, h) ==
    h.alg = "bcrypt" /\ h.digest = <<h.salt, p>>

IsHash(h) ==
    h.alg = "bcrypt"

\* ------------------------------------------------------------- records
NoUserDoc ==
    [id |-> NoUser, name |-> "", email |-> "", password |-> Plain("")]

NoToken ==
    [id |-> NoUser, iat |-> 0, exp |-> 0, sig |-> "none"]

NoReq ==
    [token |-> NoToken, name |-> Missing, email |-> Missing, password |-> Missing,
     title |-> Missing, body |-> Missing, pid |-> NoPostId]

FreshPost ==
    [state |-> "fresh", user |-> NoUser, title |-> "", body |-> ""]

RemovedPost ==
    [state |-> "removed", user |-> NoUser, title |-> "", body |-> ""]

Idle ==
    [kind |-> "idle"]

VARIABLES
    users,   \* the users collection, in insertion order
    posts,   \* the posts collection: post id -> document (or fresh / removed)
    held,    \* the token a client keeps for each user
    now,     \* the clock, in hours
    pend,    \* slot -> the registration suspended before user.save(), or Idle
    resp     \* how the handler that ended last was answered

vars == <<users, posts, held, now, pend, resp>>

Init ==
    /\ users = <<>>
    /\ posts = [p \in PostIds |-> FreshPost]
    /\ held = [u \in UserIds |-> NoToken]
    /\ now = 0
    /\ pend = [s \in Slots |-> Idle]
    /\ resp = [kind |-> "none", status |-> 0, at |-> 0, user |-> NoUser, req |-> NoReq,
               pid |-> NoPostId, owner |-> NoUser, wrote |-> FALSE, token |-> NoToken,
               fault |-> "none"]

\* ------------------------------------------------------- document store
Min(S) ==
    CHOOSE x \in S : \A y \in S : x <= y

\* User.findOne({ email: email }): the first document with that email, or null.
FindOneByEmail(us, email) ==
    LET I == {i \in 1..Len(us) : us[i].email = email}
    IN  IF I = {} THEN NoUserDoc ELSE us[Min(I)]

\* User.findById(id): the document with that id, or null.
FindById(us, id) ==
    LET I == {i \in 1..Len(us) : us[i].id = id}
    IN  IF I = {} THEN NoUserDoc ELSE us[Min(I)]

\* The unique index on email the store keeps for the users collection.
UniqueEmail(us, doc) ==
    \A i \in 1..Len(us) : us[i].email # doc.email

\* user.save(): inserts the document unless the store fails or the index refuses it.
SaveUser(us, doc, fault) ==
    IF fault \/ ~UniqueEmail(us, doc)
    THEN [ok |-> FALSE, users |-> us]
    ELSE [ok |-> TRUE, users |-> Append(us, doc)]

\* The _id a new document gets: one no document of the collection has had.
UsedUserIds ==
    {users[i].id : i \in 1..Len(users)}

FreshPostIds ==
    {p \in PostIds : posts[p].state = "fresh"}

\* Post.findById(id): the stored document, or null.
Found(p) ==
    posts[p].state = "stored"

\* ------------------------------------------------------- session tokens
\* As SignToken with expiresIn: "10", which jsonwebtoken reads as milliseconds:
\* the token is expired as soon as it is signed.
SignTokenMillis(user) ==
    [id |-> user.id, iat |-> now, exp |-> now, sig |-> "ok"]

\* The payload and options of jwt.sign in returnToken.
SignToken(user) ==
    [id |-> user.id, iat |-> now, exp |-> now + ExpiresIn, sig |-> "ok"]

\* A token whose bytes were changed after it was signed.
Tampered(t) ==
    [t EXCEPT !.sig = "bad"]

\* What a client can put in the token header.
TokensPresented ==
    {NoToken} \cup {held[u] : u \in {v \in UserIds : held[v] # NoToken}}
              \cup {Tampered(held[u]) : u \in {v \in UserIds : held[v] # NoToken}}

\* middleware/auth: the user id the token carries when its signature verifies and
\* it has not expired; otherwise the request is answered 401 before the handler.
Verify(t) ==
    IF t.sig = "ok" /\ now < t.exp THEN t.id ELSE NoUser

\* returnToken may succeed, throw while the handler is still in its try ("config":
\* config.get, or jwt.sign refusing its arguments and calling back at once), or
\* get the error in the callback after the handler has returned ("sign").
SignOutcomes == {"ok", "config", "sign"}

\* ------------------------------------------------------------ responses
\* The handler ends: res.status(status) (0: it ends without answering).  The
\* record keeps what the handler was asked (req, at), what it saw (user: the id
\* the middleware put in req.user; owner: the owner of the post it loaded or
\* made), what was thrown in it (fault) and whether this step changed the store.
Answer(kind, status, user, req, pid, owner, token, fault) ==
    resp' = [kind |-> kind, status |-> status, at |-> now, user |-> user,
             req |-> req, pid |-> pid, owner |-> owner,
             wrote |-> (users' # users \/ posts' # posts), token |-> token,
             fault |-> fault]

\* A handler that ends without a write and without a token.
Done(kind, status, user, req, owner, fault) ==
    /\ UNCHANGED <<users, posts, held, now, pend>>
    /\ Answer(kind, status, user, req, req.pid, owner, NoToken, fault)

Release(s) ==
    [pend EXCEPT ![s] = Idle]

IdleSlots ==
    {s \in Slots : pend[s] = Idle}

\* returnToken(user, res), called once the store was written (users' is set by
\* the caller); rest is pend once the calling handler has left it.
ReturnToken(kind, user, req, rest) ==
    \E sign \in SignOutcomes :
        CASE sign = "config" ->
               /\ held' = held /\ pend' = rest
               /\ Answer(kind, 500, NoUser, req, NoPostId, NoUser, NoToken, "config")
          [] sign = "sign" ->
               \* if (err) throw err, in jwt.sign's callback: nothing catches it, no
               \* answer is sent and the process goes down with its suspended handlers
               /\ held' = held /\ pend' = [s \in Slots |-> Idle]
               /\ Answer(kind, 0, NoUser, req, NoPostId, NoUser, NoToken, "sign")
          [] OTHER ->
               LET token == SignToken(user)
               IN  /\ \E keep \in BOOLEAN :
                         held' = IF keep THEN [held EXCEPT ![user.id] = token] ELSE held
                   /\ pend' = rest
                   /\ Answer(kind, 200, NoUser, req, NoPostId, NoUser, token, "none")

\* --------------------------------------------------------------- clock
Tick ==
    /\ now + TickHours <= MaxClock
    /\ now' = now + TickHours
    /\ UNCHANGED <<users, posts, held, pend, resp>>

\* --------------------------------------------------------- GET handlers
\* GET /
GetRoot ==
    Done("root", 200, NoUser, NoReq, NoUser, "none")

\* GET /api/auth: findById's result is sent as it is, null included.
GetAuth(token) ==
    LET req == [NoReq EXCEPT !.token = token]
        id == Verify(token)
    IN  IF id = NoUser THEN Done("auth", 401, NoUser, req, NoUser, "none")
        ELSE \E fault \in BOOLEAN :
               IF fault THEN Done("auth", 500, id, req, NoUser, "find")
               ELSE Done("auth", 200, id, req, NoUser, "none")

\* GET /api/posts
GetPosts(token) ==
    LET req == [NoReq EXCEPT !.token = token]
        id == Verify(token)
    IN  IF id = NoUser THEN Done("posts", 401, NoUser, req, NoUser, "none")
        ELSE \E fault \in BOOLEAN :
               IF fault THEN Done("posts", 500, id, req, NoUser, "find")
               ELSE Done("posts", 200, id, req, NoUser, "none")

\* GET /api/posts/:id
GetPost(token) ==
    LET id == Verify(token)
    IN  IF id = NoUser
        THEN Done("post", 401, NoUser, [NoReq EXCEPT !.token = token], NoUser, "none")
        ELSE \E pid \in PostIds, fault \in BOOLEAN :
               LET req == [NoReq EXCEPT !.token = token, !.pid = pid]
               IN  IF fault THEN Done("post", 500, id, req, NoUser, "find")
                   ELSE IF ~Found(pid) THEN Done("post", 404, id, req, NoUser, "none")
                   ELSE Done("post", 200, id, req, posts[pid].user, "none")

\* ------------------------------------------------------- POST /api/login
\* As Credentials without the password check.
CredentialsByEmail(us, email, password) ==
    FindOneByEmail(us, email)

\* The user the credentials belong to: findOne by email, then bcrypt.compare
\* against that user's stored hash; null when either fails.
Credentials(us, email, password) ==
    LET user == FindOneByEmail(us, email)
    IN  IF user.id = NoUser THEN NoUserDoc
        ELSE IF ~BcryptCompare(password, user.password) THEN NoUserDoc
        ELSE user

Login(email, password) ==
    LET req == [NoReq EXCEPT !.email = email, !.password = password]
    IN  IF ~(IsEmail(email) /\ Exists(password))
        THEN Done("login", 422, NoUser, req, NoUser, "none")
        ELSE \E fault \in BOOLEAN :
               IF fault THEN Done("login", 500, NoUser, req, NoUser, "find")
               ELSE LET user == Credentials(users, email, password)
                    IN  IF user.id = NoUser
                        THEN Done("login", 400, NoUser, req, NoUser, "none")
                        ELSE /\ UNCHANGED <<users, posts, now>>
                             /\ ReturnToken("login", user, req, pend)

\* ------------------------------------------------------- POST /api/users
\* new User({ name, email, password }): the password still in clear.
NewUser(name, email, password) ==
    [id |-> NoUser, name |-> name, email |-> email, password |-> Plain(password)]

\* As Encrypt with the hash computed and not assigned.
EncryptDropped(doc, password, salt) ==
    doc

\* user.password = await bcrypt.hash(password, salt)
Encrypt(doc, password, salt) ==
    [doc EXCEPT !.password = BcryptHash(password, salt)]

\* As AlreadyExists with the test left out.
AlreadyExistsNever(user) ==
    FALSE

\* if (user) return res.status(400): the lookup found the email.
AlreadyExists(user) ==
    user.id # NoUser

\* As Thrown with user.save() not awaited: its rejection never reaches the catch.
ThrownNever(saved) ==
    FALSE

\* await user.save(): a rejected save throws into the handler's catch.
Thrown(saved) ==
    ~saved.ok

RegisterStart(name, email, password) ==
    LET req == [NoReq EXCEPT !.name = name, !.email = email, !.password = password]
    IN  IF ~(NotEmpty(name) /\ IsEmail(email) /\ IsLongEnough(password))
        THEN Done("register", 422, NoUser, req, NoUser, "none")
        ELSE \E fault \in {"none", "find", "hash"}, salt \in Salts :
               IF fault = "find" THEN Done("register", 500, NoUser, req, NoUser, "find")
               ELSE IF AlreadyExists(FindOneByEmail(users, email))
               THEN Done("register", 400, NoUser, req, NoUser, "none")
               ELSE IF fault = "hash"
               THEN Done("register", 500, NoUser, req, NoUser, "hash")
               ELSE /\ IdleSlots # {}
                    /\ Len(users) + (MaxPending - Cardinality(IdleSlots))
                         < Cardinality(UserIds)
                    /\ pend' = [pend EXCEPT ![Min(IdleSlots)] =
                                  [kind |-> "register", req |-> req,
                                   doc |-> Encrypt(NewUser(name, email, password),
                                                   password, salt)]]
                    /\ UNCHANGED <<users, posts, held, now, resp>>

RegisterSave(s) ==
    /\ pend[s] # Idle
    /\ \E fault \in BOOLEAN :
         LET id == CHOOSE u \in UserIds \ UsedUserIds : TRUE
             user == [pend[s].doc EXCEPT !.id = id]
             saved == SaveUser(users, user, fault)
         IN  /\ users' = saved.users
             /\ UNCHANGED <<posts, now>>
             /\ IF Thrown(saved)
                THEN /\ held' = held /\ pend' = Release(s)
                     /\ Answer("register", 500, NoUser, pend[s].req, NoPostId, NoUser,
                               NoToken, "save")
                ELSE ReturnToken("register", user, pend[s].req, Release(s))

\* ------------------------------------------------------- POST /api/posts
\* new Post({ user: user.id, title: title, body: body })
NewPost(user, title, body) ==
    [state |-> "stored", user |-> user.id, title |-> title, body |-> body]

\* The end of the handler once the user was looked up: user.id of null throws
\* into the catch; otherwise the post is saved and sent back.
SavePost(id, user, req) ==
    IF user.id = NoUser THEN Done("create", 500, id, req, NoUser, "null")
    ELSE /\ FreshPostIds # {}
         /\ LET pid == CHOOSE p \in FreshPostIds : TRUE
                post == NewPost(user, req.title, req.body)
            IN  /\ posts' = [posts EXCEPT ![pid] = post]
                /\ UNCHANGED <<users, held, now, pend>>
                /\ Answer("create", 200, id, req, pid, post.user, NoToken, "none")

CreatePost(token) ==
    LET id == Verify(token)
    IN  IF id = NoUser
        THEN Done("create", 401, NoUser, [NoReq EXCEPT !.token = token], NoUser, "none")
        ELSE \E title \in Titles, body \in Bodies :
               LET req == [NoReq EXCEPT !.token = token, !.title = title, !.body = body]
               IN  IF ~(NotEmpty(title) /\ NotEmpty(body))
                   THEN Done("create", 400, id, req, NoUser, "none")
                   ELSE \E fault \in BOOLEAN :
                          IF fault THEN Done("create", 500, id, req, NoUser, "store")
                          ELSE SavePost(id, FindById(users, id), req)

\* The earlier server.js: User.findOne(req.user.id).  The filter is a string, not
\* an object: the store either refuses it (the query rejects) or ignores it and
\* hands back the first document of the collection.
FindOneByString(us, filter) ==
    IF Len(us) > 0 THEN us[1] ELSE NoUserDoc

CreatePostEarly(token) ==
    LET id == Verify(token)
    IN  IF id = NoUser
        THEN Done("create", 401, NoUser, [NoReq EXCEPT !.token = token], NoUser, "none")
        ELSE \E title \in Titles, body \in Bodies :
               LET req == [NoReq EXCEPT !.token = token, !.title = title, !.body = body]
               IN  IF ~(NotEmpty(title) /\ NotEmpty(body))
                   THEN Done("create", 400, id, req, NoUser, "none")
                   ELSE \E fault \in BOOLEAN, refused \in BOOLEAN :
                          IF fault \/ refused
                          THEN Done("create", 500, id, req, NoUser, "store")
                          ELSE SavePost(id, FindOneByString(users, id), req)

\* ------------------------------------------------ DELETE /api/posts/:id
\* As Authorized with the comparison left out.
AuthorizedAlways(post, id) ==
    TRUE

\* post.user.toString() !== req.user.id answers 401: the ownership guard.
Authorized(post, id) ==
    post.user = id

DeletePost(token) ==
    LET id == Verify(token)
    IN  IF id = NoUser
        THEN Done("delete", 401, NoUser, [NoReq EXCEPT !.token = token], NoUser, "none")
        ELSE \E pid \in PostIds, fault \in {"none", "find", "remove"} :
               LET req == [NoReq EXCEPT !.token = token, !.pid = pid]
               IN  IF fault = "find" THEN Done("delete", 500, id, req, NoUser, "find")
                   ELSE IF ~Found(pid) THEN Done("delete", 404, id, req, NoUser, "none")
                   ELSE IF ~Authorized(posts[pid], id)
                   THEN Done("delete", 401, id, req, posts[pid].user, "none")
                   ELSE IF fault = "remove"
                   THEN Done("delete", 500, id, req, posts[pid].user, "remove")
                   ELSE /\ posts' = [posts EXCEPT ![pid] = RemovedPost]
                        /\ UNCHANGED <<users, held, now, pend>>
                        /\ Answer("delete", 200, id, req, pid, posts[pid].user,
                                  NoToken, "none")

\* --------------------------------------------------- PUT /api/posts/:id
\* A value JavaScript's || passes over: undefined and ''.
Truthy(x) ==
    x \notin {Missing, ""}

Or(a, b) ==
    IF Truthy(a) THEN a ELSE b

\* post.title = title || post.title; post.body = title || post.body;
Assign(post, title, body) ==
    [post EXCEPT !.title = Or(title, post.title), !.body = Or(title, post.body)]

\* await post.save() is the handler's last statement: no res call follows it.
UpdatePost(token) ==
    LET id == Verify(token)
    IN  IF id = NoUser
        THEN Done("put", 401, NoUser, [NoReq EXCEPT !.token = token], NoUser, "none")
        ELSE \E pid \in PostIds, fault \in {"none", "find", "save"} :
               \* the handler ends before it looks at title and body
               LET req == [NoReq EXCEPT !.token = token, !.pid = pid]
               IN  IF fault = "find" THEN Done("put", 500, id, req, NoUser, "find")
                   ELSE IF ~Found(pid) THEN Done("put", 404, id, req, NoUser, "none")
                   ELSE IF ~Authorized(posts[pid], id)
                   THEN Done("put", 401, id, req, posts[pid].user, "none")
                   ELSE IF fault = "save"
                   THEN Done("put", 500, id, req, posts[pid].user, "save")
                   ELSE \E title \in Titles, body \in Bodies :
                          /\ posts' = [posts EXCEPT
                                         ![pid] = Assign(posts[pid], title, body)]
                          /\ UNCHANGED <<users, held, now, pend>>
                          /\ Answer("put", 0, id,
                                    [req EXCEPT !.title = title, !.body = body],
                                    pid, posts[pid].user, NoToken, "none")

\* -------------------------------------------------------- specifications
\* The handlers both versions of server.js have.
Accounts ==
    \/ Tick
    \/ GetRoot
    \/ \E token \in TokensPresented : GetAuth(token)
    \/ \E email \in Emails, password \in Passwords : Login(email, password)
    \/ \E name \in Names, email \in Emails, password \in Passwords :
            RegisterStart(name, email, password)
    \/ \E s \in Slots : RegisterSave(s)

Next ==
    \/ Accounts
    \/ \E token \in TokensPresented : GetPosts(token)
    \/ \E token \in TokensPresented : GetPost(token)
    \/ \E token \in TokensPresented : CreatePost(token)
    \/ \E token \in TokensPresented : DeletePost(token)
    \/ \E token \in TokensPresented : UpdatePost(token)

\* The later server.js.
Spec ==
    Init /\ [][Next]_vars

\* The earlier server.js: of the post handlers it has the create alone.
NextEarly ==
    \/ Accounts
    \/ \E token \in TokensPresented : CreatePostEarly(token)

SpecEarly ==
    Init /\ [][NextEarly]_vars

\* ---------------------------------------------------------------- claims
\* resp describes the handler that ended last, and users and posts are as that
\* handler left them: every step that changes the store ends a handler.

EmailStored(us, email) ==
    \E i \in 1..Len(us) : us[i].email = email

WellFormedRegistration(req) ==
    NotEmpty(req.name) /\ IsEmail(req.email) /\ IsLongEnough(req.password)

WellFormedLogin(req) ==
    IsEmail(req.email) /\ Exists(req.password)

ProtectedKinds == {"auth", "posts", "post", "create", "delete", "put"}

\* C1: a DELETE or PUT on a stored post, made with a valid token of a user who is
\* not the post's owner, is answered 401 and writes nothing: the post is still
\* stored, with the same owner, title and body.
C1_NonOwnerRefused ==
    (/\ resp.kind \in {"delete", "put"}
     /\ resp.user # NoUser
     /\ resp.owner # NoUser
     /\ resp.owner # resp.user)
    => /\ resp.status = 401
       /\ ~resp.wrote
       /\ posts[resp.pid].state = "stored"
       /\ posts[resp.pid].user = resp.owner

C1_Witness ==
    /\ resp.kind = "delete"
    /\ resp.user # NoUser
    /\ resp.owner # NoUser
    /\ resp.owner # resp.user
    /\ resp.status = 401
    /\ posts[resp.pid].state = "stored"

C3_Updated ==
    (/\ resp'.kind = "put"
     /\ resp'.fault = "none"
     /\ resp'.owner # NoUser
     /\ resp'.owner = resp'.user
     /\ (resp' # resp \/ posts' # posts))
    => /\ posts'[resp'.pid].title =
            IF Truthy(resp'.req.title) THEN resp'.req.title
            ELSE posts[resp'.pid].title
       /\ posts'[resp'.pid].body =
            IF Truthy(resp'.req.body) THEN resp'.req.body
            ELSE posts[resp'.pid].body

\* C3, as a property of every step: each PUT of the owner that goes through
\* updates the fields provided and only those.
C3_UpdatesWhatIsProvided ==
    [][C3_Updated]_vars

\* C4: a well-formed POST /api/users whose email belongs to a stored user is,
\* unless the lookup itself fails, answered 400 in the step that looks the email
\* up, with the users collection unchanged; it never goes on to user.save().
C4_Refused ==
    /\ \A s \in Slots :
         (pend[s] = Idle /\ pend'[s] # Idle)
         => ~EmailStored(users, pend'[s].req.email)
    /\ (/\ resp' # resp
        /\ resp'.kind = "register"
        /\ WellFormedRegistration(resp'.req)
        /\ resp'.fault = "none"
        /\ EmailStored(users, resp'.req.email))
       => /\ resp'.status = 400
          /\ users' = users

\* C4, as a property of every step: registering a stored email is answered 400
\* and creates no user.
C4_DuplicateEmailRefused ==
    [][C4_Refused]_vars

C4_Witness ==
    /\ resp.kind = "register"
    /\ resp.status = 400
    /\ EmailStored(users, resp.req.email)
    /\ ~resp.wrote

\* C5: a POST /api/posts with a valid token and an empty or missing title or body
\* is answered 422 and creates no post.
C5_EmptyPostIs422 ==
    (/\ resp.kind = "create"
     /\ resp.user # NoUser
     /\ ~(NotEmpty(resp.req.title) /\ NotEmpty(resp.req.body)))
    => /\ resp.status = 422
       /\ ~resp.wrote

\* C6: a token a client holds was minted for its user, and a request that
\* presents it to a token-protected endpoint is taken as that user's at every
\* moment less than ten hours after it was minted, and refused with 401, before
\* any write, from ten hours on; nothing else revokes or revives it.
C6_TokenLifetime ==
    /\ \A u \in UserIds :
         held[u] # NoToken
         => held[u].id = u /\ held[u].sig = "ok" /\ held[u].iat <= now
    /\ (resp.kind \in ProtectedKinds /\ resp.req.token.sig = "ok")
       => IF resp.at < resp.req.token.iat + ExpiresIn
          THEN resp.user = resp.req.token.id
          ELSE resp.user = NoUser /\ resp.status = 401 /\ ~resp.wrote

C6_Witness ==
    /\ resp.kind \in ProtectedKinds
    /\ resp.req.token.sig = "ok"
    /\ resp.at >= resp.req.token.iat + ExpiresIn
    /\ resp.status = 401
    /\ \E u \in UserIds :
         held[u] # NoToken /\ held[u].iat > 0 /\ now < held[u].iat + ExpiresIn

\* C7: a well-formed POST /api/login in which nothing is thrown is answered 200
\* with a token exactly when a stored user has the email and the password
\* verifies against that user's hash, and the token carries that user's id;
\* otherwise it is answered 400 without a token.  No login writes to the store.
C7_Login ==
    /\ resp.kind = "login" => ~resp.wrote
    /\ (resp.kind = "login" /\ WellFormedLogin(resp.req) /\ resp.fault = "none")
       => LET M == {i \in 1..Len(users) :
                      /\ users[i].email = resp.req.email
                      /\ BcryptCompare(resp.req.password, users[i].password)}
          IN  IF M # {}
              THEN /\ resp.status = 200
                   /\ resp.token.sig = "ok"
                   /\ \E i \in M : resp.token.id = users[i].id
              ELSE /\ resp.status = 400
                   /\ resp.token = NoToken

C7_Witness ==
    /\ resp.kind = "login"
    /\ resp.status = 200
    /\ resp.token.sig = "ok"
    /\ Len(users) = 2

\* C8: the password field of every stored user is a bcrypt hash, never the clear
\* text, also after registrations that failed in bcrypt.hash or in user.save().
C8_PasswordsHashed ==
    \A i \in 1..Len(users) :
        /\ IsHash(users[i].password)
        /\ \A p \in Passwords : users[i].password # Plain(p)

C8_Witness ==
    /\ Len(users) > 0
    /\ resp.kind = "register"
    /\ resp.status = 500
    /\ resp.fault \in {"hash", "save"}

\* C9: however the registration handlers interleave between the lookup and the
\* save, no two stored users share an email, and a registration is answered 200
\* only in the step that inserts the one record with its email: of several
\* registrations for one email at most one is answered 200.
C9_UniqueEmail ==
    /\ \A i, j \in 1..Len(users) : i # j => users[i].email # users[j].email
    /\ (resp.kind = "register" /\ resp.status = 200)
       => /\ resp.wrote
          /\ users[Len(users)].email = resp.req.email
          /\ users[Len(users)].id = resp.token.id

\* A registration that found its email free and lost the race to another one.
C9_Witness ==
    /\ resp.kind = "register"
    /\ resp.status = 500
    /\ resp.fault = "save"
    /\ EmailStored(users, resp.req.email)

\* C10: every handler that ends has answered its request.
C10_EveryHandlerAnswers ==
    resp.kind # "none" => resp.status # 0
====
